---- MODULE Spec2Model ----
(***************************************************************************)
(* Model of the lidarrscripts repository: three one-shot command-line      *)
(* scripts.                                                                *)
(*                                                                         *)
(*   SpecChecker  src/python/spotify_playlist_checker.py (main, the        *)
(*                rate-limited MusicBrainz client, check_streaming_...)    *)
(*   SpecImport   src/python/import_nfo_albums.py (main, the identifier    *)
(*                extractor, add_album_to_lidarr)                          *)
(*                                                                         *)
(* Python values are modelled as follows.  None and a missing dict key are *)
(* the empty sequence <<>>, a present value v is <<v>>; a dict is a record *)
(* of such optional fields; a str is a TLA+ string, taken apart with Len   *)
(* and SubSeq.  Time is the wall clock of time.time() in ticks of          *)
(* 1/TicksPerSecond seconds; it advances only inside time.sleep and inside *)
(* an HTTP round trip, the statements in between take no time.             *)
(***************************************************************************)
EXTENDS Integers, Sequences, FiniteSets, TLC

(***************************************************************************)
(* Bounds of the model.                                                    *)
(***************************************************************************)
TicksPerSecond == 2     \* clock resolution
MaxLatency == 2         \* longest HTTP round trip, in ticks
MaxOversleep == 1       \* time.sleep may return this many ticks late
MaxTracks == 2          \* playlist length
MaxRelations == 2       \* length of a MusicBrainz relation list
MaxCalls == 3           \* calls made to a MusicBrainzClient on its own
RoundTrip == 1          \* ticks a MusicBrainz round trip takes in main's runs

(***************************************************************************)
(* Python str helpers.                                                     *)
(***************************************************************************)
UpperChars == "ABCDEFGHIJKLMNOPQRSTUVWXYZ"
LowerChars == "abcdefghijklmnopqrstuvwxyz"

CharAt(s, k) == SubSeq(s, k, k)

\* str.lower() of one character
LowerOf == [k \in 1..Len(UpperChars) |-> CharAt(LowerChars, k)]
UpperSet == {CharAt(UpperChars, k) : k \in 1..Len(UpperChars)}
UpperIndex == [c \in UpperSet |-> CHOOSE k \in 1..Len(UpperChars) : CharAt(UpperChars, k) = c]

LowerChar(c) == IF c \in UpperSet THEN LowerOf[UpperIndex[c]] ELSE c

RECURSIVE Lower(_)
Lower(s) == IF Len(s) = 0 THEN "" ELSE LowerChar(CharAt(s, 1)) \o Lower(SubSeq(s, 2, Len(s)))

\* pat occurs in s
Contains(s, pat) ==
    \E k \in 1..(Len(s) - Len(pat) + 1) : SubSeq(s, k, k + Len(pat) - 1) = pat

\* re.search(pattern, s, re.IGNORECASE) for a pattern that is a literal
\* (every SERVICE_PATTERNS entry is: its only metacharacter is the escaped dot)
SearchIgnoreCase(literal, s) == Contains(Lower(s), Lower(literal))

\* dict.get(key, default) on an optional field
Get(opt, default) == IF opt = <<>> THEN default ELSE opt[1]

(***************************************************************************)
(* spotify_playlist_checker.py: configuration.                             *)
(***************************************************************************)
MB_RATE_LIMIT == 1 * TicksPerSecond     \* 1.0 second

\* the literals matched by the regular expressions of SERVICE_PATTERNS
SERVICE_PATTERNS ==
    [spotify |-> "open.spotify.com/artist/",
     tidal   |-> "tidal.com/artist/",
     deezer  |-> "deezer.com/artist/"]

Services == {"spotify", "tidal", "deezer"}

NoServices == [spotify |-> FALSE, tidal |-> FALSE, deezer |-> FALSE]

(***************************************************************************)
(* check_streaming_services(relations).  A relation is a dict             *)
(* {type?, url?: {resource?}}.                                             *)
(***************************************************************************)
\* CheckRelation with "services[service] = bool(re.search(...))": a later
\* relation that does not match clears what an earlier one set
CheckRelationOverwrite(services, relation) ==
    IF relation.type = <<"streaming">> /\ relation.url # <<>>
    THEN LET url == Get(relation.url[1].resource, "")
         IN  [s \in Services |-> SearchIgnoreCase(SERVICE_PATTERNS[s], url)]
    ELSE services

\* one pass of the inner loop over SERVICE_PATTERNS for one relation
CheckRelation(services, relation) ==
    IF relation.type = <<"streaming">> /\ relation.url # <<>>
    THEN LET url == Get(relation.url[1].resource, "")
         IN  [s \in Services |->
                 IF SearchIgnoreCase(SERVICE_PATTERNS[s], url) THEN TRUE ELSE services[s]]
    ELSE services

RECURSIVE CheckFrom(_, _)
CheckFrom(services, relations) ==
    IF relations = <<>> THEN services
    ELSE CheckFrom(CheckRelation(services, Head(relations)), Tail(relations))

check_streaming_services(relations) == CheckFrom(NoServices, relations)

(***************************************************************************)
(* extract_playlist_id(playlist_url).                                      *)
(***************************************************************************)
StartsWith(s, p) == Len(s) >= Len(p) /\ SubSeq(s, 1, Len(p)) = p

\* position of the first occurrence of the one-character string c in s at or
\* after position from, or 0
IndexFrom(s, c, from) ==
    IF \E k \in from..Len(s) : CharAt(s, k) = c
    THEN CHOOSE k \in from..Len(s) :
            CharAt(s, k) = c /\ \A j \in from..(k - 1) : CharAt(s, j) # c
    ELSE 0

\* str.split(sep) for a one-character separator
RECURSIVE Split(_, _)
Split(s, sep) ==
    LET k == IndexFrom(s, sep, 1)
    IN  IF k = 0 THEN <<s>>
        ELSE <<SubSeq(s, 1, k - 1)>> \o Split(SubSeq(s, k + 1, Len(s)), sep)

\* str.strip("/")
RECURSIVE StripSlashes(_)
StripSlashes(s) ==
    IF Len(s) > 0 /\ CharAt(s, 1) = "/" THEN StripSlashes(SubSeq(s, 2, Len(s)))
    ELSE IF Len(s) > 0 /\ CharAt(s, Len(s)) = "/" THEN StripSlashes(SubSeq(s, 1, Len(s) - 1))
    ELSE s

\* urlparse(url) for URLs of the form [scheme://netloc][/path][?query]
UrlParse(url) ==
    LET c     == IndexFrom(url, ":", 1)
        hasNl == c > 0 /\ SubSeq(url, c + 1, c + 2) = "//"
        rest  == IF hasNl THEN SubSeq(url, c + 3, Len(url))
                 ELSE IF c > 0 THEN SubSeq(url, c + 1, Len(url)) ELSE url
        q     == IndexFrom(rest, "?", 1)
        noq   == IF q = 0 THEN rest ELSE SubSeq(rest, 1, q - 1)
        sl    == IndexFrom(noq, "/", 1)
    IN  IF hasNl
        THEN [netloc |-> IF sl = 0 THEN noq ELSE SubSeq(noq, 1, sl - 1),
              path   |-> IF sl = 0 THEN "" ELSE SubSeq(noq, sl, Len(noq))]
        ELSE [netloc |-> "", path |-> noq]

\* <<id>>, or <<>> when the code raises ValueError
extract_playlist_id(playlist_url) ==
    IF StartsWith(playlist_url, "spotify:playlist:")
    THEN LET parts == Split(playlist_url, ":") IN <<parts[Len(parts)]>>
    ELSE LET parsed     == UrlParse(playlist_url)
             path_parts == Split(StripSlashes(parsed.path), "/")
         IN  IF /\ Contains(parsed.netloc, "open.spotify.com")
                /\ Len(path_parts) >= 2
                /\ path_parts[1] = "playlist"
             THEN <<Split(path_parts[2], "?")[1]>>
             ELSE <<>>

(***************************************************************************)
(* get_playlist_artists: the unique artists of the tracks, in order of     *)
(* first appearance.  A playlist item is the list of its track's artist    *)
(* ids (empty for a null track or a track without artists).                *)
(***************************************************************************)
ArtistIds == {"sp1", "sp2"}

ArtistName(id) == "Artist " \o id

RECURSIVE Flatten(_)
Flatten(tracks) == IF tracks = <<>> THEN <<>> ELSE Head(tracks) \o Flatten(Tail(tracks))

RECURSIVE UniqueArtists(_, _)
UniqueArtists(ids, seen) ==
    IF ids = <<>> THEN <<>>
    ELSE IF Head(ids) \in seen THEN UniqueArtists(Tail(ids), seen)
    ELSE <<[id |-> Head(ids), name |-> ArtistName(Head(ids))]>>
         \o UniqueArtists(Tail(ids), seen \cup {Head(ids)})

PlaylistArtists(tracks) == UniqueArtists(Flatten(tracks), {})

(***************************************************************************)
(* MusicBrainzClient.                                                      *)
(***************************************************************************)
\* the exceptions a request can raise, all subclasses of
\* requests.RequestException: session.get (ConnectionError),
\* raise_for_status (HTTPError), response.json (requests' JSONDecodeError)
RequestException == {"ConnectionError", "HTTPError", "JSONDecodeError"}

\* SleepTime with "time.sleep(elapsed)": the time already spent, not the rest
SleepTimeElapsed(elapsed) ==
    IF elapsed < MB_RATE_LIMIT THEN elapsed ELSE 0

\* the argument of time.sleep in _rate_limit, 0 when it is not called
SleepTime(elapsed) ==
    IF elapsed < MB_RATE_LIMIT THEN MB_RATE_LIMIT - elapsed ELSE 0

\* rate_limit storing the time.time() it read on entry, before the wait
rate_limit_stamp_on_entry(t, last, oversleep) ==
    LET elapsed == t - last
        woke    == IF elapsed < MB_RATE_LIMIT
                   THEN t + (MB_RATE_LIMIT - elapsed) + oversleep ELSE t
    IN  [now |-> woke, last_request_time |-> t]

\* _rate_limit() entered at time t: the time it returns at (time.sleep may
\* oversleep) and the timestamp it stores
rate_limit(t, last, oversleep) ==
    LET elapsed == t - last
        woke    == IF SleepTime(elapsed) > 0 THEN t + SleepTime(elapsed) + oversleep ELSE t
    IN  [now |-> woke, last_request_time |-> woke]

EmptyDict == [artists |-> <<>>]

MbArtist(id) == [id |-> id]

\* JSON bodies of GET /artist?query=...: no "artists" key, an empty list, one
\* artist, two artists
SearchBodies ==
    {[artists |-> <<>>],
     [artists |-> << <<>> >>],
     [artists |-> << <<MbArtist("mb1")>> >>],
     [artists |-> << <<MbArtist("mb2"), MbArtist("mb1")>> >>]}

SearchResponses ==
    {[kind |-> k, body |-> EmptyDict] : k \in RequestException}
    \cup {[kind |-> "ok", body |-> b] : b \in SearchBodies}

\* search_artist_by_spotify_id with "except requests.HTTPError"
search_artist_except_http_error(resp) ==
    IF resp.kind = "ok" THEN [raised |-> <<>>, value |-> resp.body]
    ELSE IF resp.kind = "HTTPError" THEN [raised |-> <<>>, value |-> EmptyDict]
    ELSE [raised |-> <<resp.kind>>, value |-> EmptyDict]

\* what search_artist_by_spotify_id returns, or the exception it lets through
search_artist_by_spotify_id(resp) ==
    IF resp.kind = "ok" THEN [raised |-> <<>>, value |-> resp.body]
    ELSE IF resp.kind \in RequestException THEN [raised |-> <<>>, value |-> EmptyDict]
    ELSE [raised |-> <<resp.kind>>, value |-> EmptyDict]

\* relations as MusicBrainz returns them
Relation(type, url) == [type |-> type, url |-> url]
Url(resource) == <<[resource |-> <<resource>>]>>

RelationSet ==
    {Relation(<<"streaming">>, Url("https://Open.Spotify.com/artist/4Z8W")),
     Relation(<<"streaming">>, Url("https://tidal.com/artist/77")),
     Relation(<<"streaming">>, Url("https://www.deezer.com/artist/9")),
     Relation(<<"streaming">>, Url("https://music.apple.com/artist/5")),
     Relation(<<"free streaming">>, Url("https://open.spotify.com/artist/4Z8W")),
     Relation(<<"streaming">>, <<>>),
     Relation(<<"streaming">>, <<[resource |-> <<>>]>>),
     Relation(<<>>, Url("https://www.deezer.com/artist/9"))}

RECURSIVE SeqsUpTo(_, _)
SeqsUpTo(S, n) ==
    IF n = 0 THEN {<<>>}
    ELSE LET shorter == SeqsUpTo(S, n - 1)
         IN  shorter \cup {Append(q, x) : q \in shorter, x \in S}

RelationLists == SeqsUpTo(RelationSet, MaxRelations)

\* the relation lists MusicBrainz answers with in the runs of the client and
\* of main
AnswerLists ==
    LET spotify == Relation(<<"streaming">>, Url("https://Open.Spotify.com/artist/4Z8W"))
        tidal   == Relation(<<"streaming">>, Url("https://tidal.com/artist/77"))
        deezer  == Relation(<<"streaming">>, Url("https://www.deezer.com/artist/9"))
        apple   == Relation(<<"streaming">>, Url("https://music.apple.com/artist/5"))
    IN  {<<>>, <<spotify>>, <<spotify, apple>>, <<tidal, deezer>>, <<spotify, tidal, deezer>>}

\* JSON bodies of GET /artist/<id>?inc=url-rels: with or without "relations"
UrlBodies == {[relations |-> <<>>]} \cup {[relations |-> <<l>>] : l \in AnswerLists}

UrlResponses ==
    {[kind |-> k, body |-> [relations |-> <<>>]] : k \in RequestException}
    \cup {[kind |-> "ok", body |-> b] : b \in UrlBodies}

\* what get_artist_urls returns, or the exception it lets through
get_artist_urls(resp) ==
    IF resp.kind = "ok" THEN [raised |-> <<>>, value |-> Get(resp.body.relations, <<>>)]
    ELSE IF resp.kind \in RequestException THEN [raised |-> <<>>, value |-> <<>>]
    ELSE [raised |-> <<resp.kind>>, value |-> <<>>]

(***************************************************************************)
(* spotify_playlist_checker.py: print_summary and main.                    *)
(***************************************************************************)
Truthy(opt) == opt # <<>> /\ opt[1] # <<>>

AllServices(r) == \A s \in Services : r.services[s]

NotAll(r) == ~AllServices(r)

\* the statistics print_summary prints, or the exception it raises: the
\* percentages divide by len(results)
print_summary(rs) ==
    LET total       == Len(rs)
        in_mb       == Cardinality({k \in DOMAIN rs : rs[k].mb_found})
        has_all     == Cardinality({k \in DOMAIN rs : AllServices(rs[k])})
        missing_any == Cardinality({k \in DOMAIN rs : rs[k].mb_found /\ ~AllServices(rs[k])})
    IN  IF total = 0 THEN [raised |-> <<"ZeroDivisionError">>, stats |-> <<>>]
        ELSE [raised |-> <<>>,
              stats  |-> <<[total       |-> total,
                            in_mb       |-> in_mb,
                            in_mb_pct   |-> (in_mb * 100) \div total,
                            has_all     |-> has_all,
                            has_all_pct |-> (has_all * 100) \div total,
                            missing_any |-> missing_any]>>]

\* the record main appends to results for one artist
\* a result that takes the "artists" key of the answer for a found artist
ResultForKeyPresent(artist, search, rels) ==
    [name       |-> artist.name,
     spotify_id |-> artist.id,
     mb_found   |-> search.artists # <<>>,
     services   |-> IF search.artists # <<>> THEN check_streaming_services(rels)
                    ELSE NoServices]

ResultFor(artist, search, rels) ==
    [name       |-> artist.name,
     spotify_id |-> artist.id,
     mb_found   |-> Truthy(search.artists),
     services   |-> IF Truthy(search.artists) THEN check_streaming_services(rels)
                    ELSE NoServices]

PlaylistUrls ==
    {"spotify:playlist:37i9dQ",
     "https://open.spotify.com/playlist/37i9dQ?si=1",
     "https://example.com/playlist/37i9dQ",
     ""}

Args == [playlist_url : PlaylistUrls,
         output : {"summary", "detailed", "csv"},
         missing_only : BOOLEAN]

NoArgs == [playlist_url |-> "", output |-> "summary", missing_only |-> FALSE]

Credentials == [client_id : BOOLEAN, client_secret : BOOLEAN]

Tracks == SeqsUpTo(ArtistIds, 2)

Playlists == SeqsUpTo(Tracks, MaxTracks)

NoResponse == [op |-> "none", kind |-> "none"]

VARIABLES
    now,                \* time.time()
    last_request_time,  \* MusicBrainzClient.last_request_time
    reqs,               \* the last two requests sent to MusicBrainz
    resp,               \* how MusicBrainz answered the last request
    calls,              \* calls made to the client so far
    pc,                 \* where main is
    argv,               \* the command line: <<>> when argparse rejects it
    environ,            \* which of the two credentials are set
    args,               \* parse_arguments()
    artists,            \* get_playlist_artists(...)
    idx,                \* the loop's position in artists
    mb_search,          \* the loop's mb_search
    relations,          \* the loop's relations
    results,            \* main's results
    printed,            \* what the output step printed
    exit_code,          \* <<>> while running
    exit_cause

\* check_streaming_services run step by step
VARIABLES
    css_pc,             \* "idle", "loop" or "returned"
    css_relations,      \* its argument
    css_k,              \* the relation the loop is at
    services            \* its local services

\* extract_musicbrainz_id run on one file
VARIABLES
    ext_pc,             \* "idle", "parse", "fallback", "returned" or "raised"
    nfo,                \* the file at nfo_path
    ext_value           \* the value returned

\* import_nfo_albums.py: main, and the Lidarr server it talks to
VARIABLES
    nfo_pc,             \* where main is
    nfo_files,          \* find_nfo_files(MUSIC_FOLDER_PATH)
    nfo_idx,            \* the loop's position in nfo_files
    mb_id,              \* the loop's mb_id
    added,
    failed,
    skipped,
    already_exists,
    catalog,            \* the albums Lidarr holds
    http,               \* the requests sent for the current file
    responses,          \* and the answer to each
    album_data,         \* add_album_to_lidarr's album_data
    artist_data,        \* add_album_to_lidarr's artist_data
    result,             \* what add_album_to_lidarr returned
    raised              \* the exception that ended main

\* mb_lidarr_import.py: main
VARIABLES
    mbl_pc,             \* where main is
    mbl_args,           \* args.monitor and args.search
    mbl_artists,        \* get_release_artists(args.release_id)
    mbl_idx,            \* the loop's position in artists
    mbl_artist_data,    \* the loop's artist_data
    mbl_post,           \* the answer to the last POST /api/v1/artist
    mbl_success,        \* the loop's success
    mbl_printed,        \* what add_artist printed last
    mbl_added,
    mbl_skipped,
    mbl_exit            \* how main ended: <<>> while it runs

cvars == <<now, last_request_time, reqs, resp, calls, pc, argv, environ, args, artists,
           idx, mb_search, relations, results, printed, exit_code, exit_cause>>

svars == <<css_pc, css_relations, css_k, services>>

evars == <<ext_pc, nfo, ext_value>>

nvars == <<nfo_pc, nfo_files, nfo_idx, mb_id, added, failed, skipped, already_exists,
           catalog, http, responses, album_data, artist_data, result, raised>>

\* the importer's variables
ivars == <<evars, nvars>>

avars == <<mbl_pc, mbl_args, mbl_artists, mbl_idx, mbl_artist_data, mbl_post, mbl_success,
           mbl_printed, mbl_added, mbl_skipped, mbl_exit>>

vars == <<cvars, svars, ivars, avars>>

IdleChecker ==
    /\ now = MB_RATE_LIMIT
    /\ last_request_time = 0
    /\ reqs = <<>>
    /\ resp = NoResponse
    /\ calls = 0
    /\ argv = <<>>
    /\ environ = [client_id |-> FALSE, client_secret |-> FALSE]
    /\ args = NoArgs
    /\ artists = <<>>
    /\ idx = 1
    /\ mb_search = EmptyDict
    /\ relations = <<>>
    /\ results = <<>>
    /\ printed = <<>>
    /\ exit_code = <<>>
    /\ exit_cause = ""

IdleStreaming ==
    /\ css_pc = "idle"
    /\ css_relations = <<>>
    /\ css_k = 1
    /\ services = NoServices

(***************************************************************************)
(* check_streaming_services, one loop iteration per step.                  *)
(***************************************************************************)
IdleExtract ==
    /\ ext_pc = "idle"
    /\ nfo = [readable |-> FALSE, wellformed |-> FALSE, decodable |-> FALSE,
              rg |-> <<>>, alb |-> <<>>]
    /\ ext_value = <<>>

IdleImport ==
    /\ nfo_pc = "idle"
    /\ nfo_files = <<>>
    /\ nfo_idx = 1
    /\ mb_id = <<>>
    /\ added = 0
    /\ failed = 0
    /\ skipped = 0
    /\ already_exists = 0
    /\ catalog = <<>>
    /\ http = <<>>
    /\ responses = <<>>
    /\ album_data = <<>>
    /\ artist_data = <<>>
    /\ result = <<>>
    /\ raised = <<>>

IdleArtists ==
    /\ mbl_pc = "idle"
    /\ mbl_args = [monitor |-> TRUE, search |-> FALSE]
    /\ mbl_artists = <<>>
    /\ mbl_idx = 1
    /\ mbl_artist_data = <<>>
    /\ mbl_post = <<>>
    /\ mbl_success = <<>>
    /\ mbl_printed = ""
    /\ mbl_added = 0
    /\ mbl_skipped = 0
    /\ mbl_exit = <<>>

InitStreaming ==
    /\ css_pc = "loop"
    /\ css_relations \in RelationLists
    /\ css_k = 1
    /\ services = NoServices
    /\ pc = "none"
    /\ IdleChecker
    /\ IdleExtract
    /\ IdleImport
    /\ IdleArtists

CssIterate ==
    /\ css_pc = "loop"
    /\ css_k <= Len(css_relations)
    /\ services' = CheckRelation(services, css_relations[css_k])
    /\ css_k' = css_k + 1
    /\ UNCHANGED <<css_pc, css_relations, cvars, ivars, avars>>

CssReturn ==
    /\ css_pc = "loop"
    /\ css_k > Len(css_relations)
    /\ css_pc' = "returned"
    /\ UNCHANGED <<css_relations, css_k, services, cvars, ivars, avars>>

NextStreaming == CssIterate \/ CssReturn

SpecStreaming == InitStreaming /\ [][NextStreaming]_vars

(***************************************************************************)
(* main of spotify_playlist_checker.py.                                    *)
(***************************************************************************)
InitChecker ==
    /\ now = MB_RATE_LIMIT
    /\ last_request_time = 0
    /\ reqs = <<>>
    /\ resp = NoResponse
    /\ calls = 0
    /\ pc = "parse_arguments"
    /\ argv \in {<<>>} \cup {<<a>> : a \in Args}
    /\ environ \in Credentials
    /\ args = NoArgs
    /\ artists = <<>>
    /\ idx = 1
    /\ mb_search = EmptyDict
    /\ relations = <<>>
    /\ results = <<>>
    /\ printed = <<>>
    /\ exit_code = <<>>
    /\ exit_cause = ""
    /\ IdleStreaming
    /\ IdleExtract
    /\ IdleImport
    /\ IdleArtists

\* sys.exit(code), or an exception nobody catches (code 1)
Exit(code, cause) ==
    /\ pc' = "exited"
    /\ exit_code' = <<code>>
    /\ exit_cause' = cause

Running(step) == pc' = step /\ UNCHANGED <<exit_code, exit_cause>>

\* parser.parse_args(): argparse exits with status 2 on a bad command line
ParseArguments ==
    /\ pc = "parse_arguments"
    /\ IF argv = <<>>
       THEN Exit(2, "usage") /\ UNCHANGED args
       ELSE args' = argv[1] /\ Running("check_spotify_credentials")
    /\ UNCHANGED <<now, last_request_time, reqs, resp, calls, argv, environ, artists, idx,
                   mb_search, relations, results, printed, svars, ivars, avars>>

CheckSpotifyCredentials ==
    /\ pc = "check_spotify_credentials"
    /\ IF ~environ.client_id \/ ~environ.client_secret
       THEN Exit(1, "credentials")
       ELSE Running("init_spotify")
    /\ UNCHANGED <<now, last_request_time, reqs, resp, calls, argv, environ, args, artists,
                   idx, mb_search, relations, results, printed, svars, ivars, avars>>

\* spotipy.Spotify(...), then MusicBrainzClient(MB_USER_AGENT)
InitClients ==
    /\ pc = "init_spotify"
    /\ \E ok \in BOOLEAN :
          IF ok THEN Running("extract_playlist_id") /\ last_request_time' = 0
          ELSE Exit(1, "spotify_init") /\ UNCHANGED last_request_time
    /\ UNCHANGED <<now, reqs, resp, calls, argv, environ, args, artists, idx,
                   mb_search, relations, results, printed, svars, ivars, avars>>

ExtractPlaylistId ==
    /\ pc = "extract_playlist_id"
    /\ IF extract_playlist_id(args.playlist_url) = <<>>
       THEN Exit(1, "invalid_url")
       ELSE Running("playlist_info")
    /\ UNCHANGED <<now, last_request_time, reqs, resp, calls, argv, environ, args, artists,
                   idx, mb_search, relations, results, printed, svars, ivars, avars>>

\* spotify.playlist(playlist_id)
PlaylistInfo ==
    /\ pc = "playlist_info"
    /\ \E ok \in BOOLEAN :
          IF ok THEN Running("get_playlist_artists") ELSE Exit(1, "playlist_info")
    /\ UNCHANGED <<now, last_request_time, reqs, resp, calls, argv, environ, args, artists,
                   idx, mb_search, relations, results, printed, svars, ivars, avars>>

LoopOrOutput(k, n) == IF k > n THEN "output" ELSE "search"

\* get_playlist_artists: any exception inside it ends the run with status 1
GetPlaylistArtists ==
    /\ pc = "get_playlist_artists"
    /\ \/ Exit(1, "playlist_tracks") /\ UNCHANGED artists
       \/ \E tracks \in Playlists :
             /\ artists' = PlaylistArtists(tracks)
             /\ Running(LoopOrOutput(1, Len(artists')))
    /\ UNCHANGED <<now, last_request_time, reqs, resp, calls, argv, environ, args, idx,
                   mb_search, relations, results, printed, svars, ivars, avars>>

\* the window of the last two requests
Logged(log, r) == IF Len(log) < 2 THEN Append(log, r) ELSE <<log[2], r>>

\* a client method up to the moment its request is on the wire:
\* self._rate_limit(), then self.session.get(...) is entered
MbIssue(op, arg, oversleep) ==
    LET rl == rate_limit(now, last_request_time, oversleep)
    IN  /\ last_request_time' = rl.last_request_time
        /\ now' = rl.now
        /\ reqs' = Logged(reqs, [op |-> op, arg |-> arg,
                                 issued |-> rl.now, completed |-> <<>>])
        /\ calls' = calls + 1
        /\ UNCHANGED resp

\* the response, or the exception, is back after latency ticks
MbReturn(op, kind, latency) ==
    /\ now' = now + latency
    /\ reqs' = [reqs EXCEPT ![Len(reqs)].completed = <<now + latency>>]
    /\ resp' = [op |-> op, kind |-> kind]
    /\ UNCHANGED <<last_request_time, calls>>

\* line 417, up to the request of search_artist_by_spotify_id
MainSearch ==
    /\ pc = "search"
    /\ MbIssue("search", artists[idx].id, 0)
    /\ Running("search_artist_by_spotify_id")
    /\ UNCHANGED <<argv, environ, args, artists, idx, mb_search, relations, results,
                   printed, svars, ivars, avars>>

\* lines 99-105, then lines 419-424, and 430-437 when the artist is not in
\* MusicBrainz
MainSearchDone ==
    /\ pc = "search_artist_by_spotify_id"
    /\ \E r \in SearchResponses :
          LET ret == search_artist_by_spotify_id(r)
          IN  /\ MbReturn("search", r.kind, RoundTrip)
              /\ mb_search' = ret.value
              /\ relations' = <<>>
              /\ IF ret.raised # <<>>
                 THEN Exit(1, ret.raised[1]) /\ UNCHANGED <<idx, results>>
                 ELSE IF Truthy(ret.value.artists)
                 THEN Running("get_urls") /\ UNCHANGED <<idx, results>>
                 ELSE /\ results' = Append(results, ResultFor(artists[idx], ret.value, <<>>))
                      /\ idx' = idx + 1
                      /\ Running(LoopOrOutput(idx + 1, Len(artists)))
    /\ UNCHANGED <<argv, environ, args, artists, printed, svars, ivars, avars>>

\* lines 423-427, up to the request of get_artist_urls
MainGetUrls ==
    /\ pc = "get_urls"
    /\ LET mb_artist == mb_search.artists[1][1]
       IN  MbIssue("urls", mb_artist.id, 0)
    /\ Running("get_artist_urls")
    /\ UNCHANGED <<argv, environ, args, artists, idx, mb_search, relations, results,
                   printed, svars, ivars, avars>>

\* lines 121-130, then lines 428-437
MainGetUrlsDone ==
    /\ pc = "get_artist_urls"
    /\ \E r \in UrlResponses :
          LET ret == get_artist_urls(r)
          IN  /\ MbReturn("urls", r.kind, RoundTrip)
              /\ relations' = ret.value
              /\ IF ret.raised # <<>>
                 THEN Exit(1, ret.raised[1]) /\ UNCHANGED <<idx, results>>
                 ELSE /\ results' = Append(results, ResultFor(artists[idx], mb_search, ret.value))
                      /\ idx' = idx + 1
                      /\ Running(LoopOrOutput(idx + 1, Len(artists)))
    /\ UNCHANGED <<argv, environ, args, artists, mb_search, printed, svars, ivars, avars>>

\* lines 441-451: the --missing-only filter, then the chosen printer
Output ==
    /\ pc = "output"
    /\ LET shown == IF args.missing_only THEN SelectSeq(results, NotAll) ELSE results
       IN  /\ results' = shown
           /\ IF args.output = "summary" /\ print_summary(shown).raised # <<>>
              THEN Exit(1, print_summary(shown).raised[1]) /\ UNCHANGED printed
              ELSE /\ printed' = <<[format |-> args.output, rows |-> Len(shown)]>>
                   /\ Exit(0, "end of main")
    /\ UNCHANGED <<now, last_request_time, reqs, resp, calls, argv, environ, args, artists,
                   idx, mb_search, relations, svars, ivars, avars>>

NextChecker ==
    \/ ParseArguments
    \/ CheckSpotifyCredentials
    \/ InitClients
    \/ ExtractPlaylistId
    \/ PlaylistInfo
    \/ GetPlaylistArtists
    \/ MainSearch
    \/ MainSearchDone
    \/ MainGetUrls
    \/ MainGetUrlsDone
    \/ Output

\* main's runs, every MusicBrainz round trip taking RoundTrip ticks and
\* time.sleep returning on time
SpecChecker == InitChecker /\ [][NextChecker]_vars

(***************************************************************************)
(* A MusicBrainzClient on its own: its two methods called in any order,    *)
(* MaxCalls times, the caller spending any time between two calls.         *)
(***************************************************************************)
InitClient ==
    /\ now = MB_RATE_LIMIT
    /\ last_request_time = 0
    /\ reqs = <<>>
    /\ resp = NoResponse
    /\ calls = 0
    /\ pc = "client"
    /\ argv = <<>>
    /\ environ = [client_id |-> TRUE, client_secret |-> TRUE]
    /\ args = NoArgs
    /\ artists = <<>>
    /\ idx = 1
    /\ mb_search = EmptyDict
    /\ relations = <<>>
    /\ results = <<>>
    /\ printed = <<>>
    /\ exit_code = <<>>
    /\ exit_cause = ""
    /\ IdleStreaming
    /\ IdleExtract
    /\ IdleImport
    /\ IdleArtists

Raised(ret) == IF ret.raised # <<>> THEN ret.raised[1] ELSE ""

ClientSearch ==
    /\ pc = "client"
    /\ calls < MaxCalls
    /\ \E oversleep \in 0..MaxOversleep : MbIssue("search", "sp1", oversleep)
    /\ pc' = "client_search"
    /\ UNCHANGED <<argv, environ, args, artists, idx, mb_search, relations, results,
                   printed, exit_code, exit_cause, svars, ivars, avars>>

ClientSearchDone ==
    /\ pc = "client_search"
    /\ \E r \in SearchResponses, latency \in 0..MaxLatency :
          /\ MbReturn("search", r.kind, latency)
          /\ mb_search' = search_artist_by_spotify_id(r).value
          /\ exit_cause' = Raised(search_artist_by_spotify_id(r))
    /\ pc' = "client"
    /\ UNCHANGED <<argv, environ, args, artists, idx, relations, results, printed,
                   exit_code, svars, ivars, avars>>

ClientGetUrls ==
    /\ pc = "client"
    /\ calls < MaxCalls
    /\ \E oversleep \in 0..MaxOversleep : MbIssue("urls", "mb1", oversleep)
    /\ pc' = "client_urls"
    /\ UNCHANGED <<argv, environ, args, artists, idx, mb_search, relations, results,
                   printed, exit_code, exit_cause, svars, ivars, avars>>

ClientGetUrlsDone ==
    /\ pc = "client_urls"
    /\ \E r \in UrlResponses, latency \in 0..MaxLatency :
          /\ MbReturn("urls", r.kind, latency)
          /\ relations' = get_artist_urls(r).value
          /\ exit_cause' = Raised(get_artist_urls(r))
    /\ pc' = "client"
    /\ UNCHANGED <<argv, environ, args, artists, idx, mb_search, results, printed,
                   exit_code, svars, ivars, avars>>

\* the caller is busy for one tick
Elapse ==
    /\ pc = "client"
    /\ calls < MaxCalls
    /\ now - last_request_time <= MB_RATE_LIMIT
    /\ now' = now + 1
    /\ UNCHANGED <<last_request_time, reqs, resp, calls, pc, argv, environ, args, artists,
                   idx, mb_search, relations, results, printed, exit_code, exit_cause, svars, ivars, avars>>

NextClient ==
    \/ ClientSearch
    \/ ClientSearchDone
    \/ ClientGetUrls
    \/ ClientGetUrlsDone
    \/ Elapse

SpecClient == InitClient /\ [][NextClient]_vars

(***************************************************************************)
(* Properties of spotify_playlist_checker.py.                              *)
(***************************************************************************)

\* C1 (SpecClient): two consecutive requests of the client, whichever methods
\* sent them, are issued at least MB_RATE_LIMIT apart.
C1_MinimumInterval ==
    Len(reqs) = 2 => reqs[2].issued - reqs[1].issued >= MB_RATE_LIMIT

\* a search answered after one tick, then a relation fetch that had to sleep
\* the rest of the interval
C1_SleptTheRemainder ==
    /\ Len(reqs) = 2
    /\ reqs[1].op = "search" /\ reqs[2].op = "urls"
    /\ reqs[1].completed = <<reqs[1].issued + 1>>
    /\ reqs[2].issued = reqs[1].issued + MB_RATE_LIMIT

\* C6 (SpecStreaming): check_streaming_services returns exactly the keys
\* spotify, tidal and deezer, each true iff some relation of type "streaming"
\* carries a URL matching the platform's pattern; a Spotify relation followed
\* by one matching nothing gives spotify only.
C6_Matches(relation, s) ==
    /\ relation.type = <<"streaming">>
    /\ relation.url # <<>>
    /\ relation.url[1].resource # <<>>
    /\ Contains(Lower(relation.url[1].resource[1]), SERVICE_PATTERNS[s])

C6_SpotifyThenOther ==
    <<Relation(<<"streaming">>, Url("https://Open.Spotify.com/artist/4Z8W")),
      Relation(<<"streaming">>, Url("https://music.apple.com/artist/5"))>>

C6_PresenceIsOr ==
    css_pc = "returned" =>
        /\ DOMAIN services = Services
        /\ \A s \in Services :
              services[s] <=> \E k \in DOMAIN css_relations : C6_Matches(css_relations[k], s)
        /\ css_relations = C6_SpotifyThenOther =>
              services = [spotify |-> TRUE, tidal |-> FALSE, deezer |-> FALSE]

C6_SpotifyThenOtherReturned ==
    /\ css_pc = "returned"
    /\ css_relations = C6_SpotifyThenOther
    /\ services["spotify"]

\* C7 (SpecChecker): a run that has its credentials, a valid playlist URL and
\* a playlist with artists exits with status 0, whatever MusicBrainz answered
\* and whatever --output and --missing-only are.
C7_ExitZeroOnceArtistsFetched ==
    (pc = "exited" /\ artists # <<>>) => exit_code = <<0>>

\* C8 (SpecChecker): no RequestException leaves the client; a failed search
\* returns {} and gives the artist the result of an empty answer (not found,
\* no service), a failed relation fetch returns [] and gives the result of an
\* empty relation list (found, no service).
C8_ErrorsAreEmptyAnswers ==
    /\ exit_cause \notin RequestException
    /\ (pc \notin {"exited", "search_artist_by_spotify_id", "get_artist_urls"}
        /\ resp.kind \in RequestException) =>
          /\ resp.op = "search" =>
                /\ mb_search = EmptyDict
                /\ results[Len(results)] =
                      [name |-> artists[idx - 1].name, spotify_id |-> artists[idx - 1].id,
                       mb_found |-> FALSE, services |-> NoServices]
          /\ resp.op = "urls" =>
                /\ relations = <<>>
                /\ results[Len(results)] =
                      [name |-> artists[idx - 1].name, spotify_id |-> artists[idx - 1].id,
                       mb_found |-> TRUE, services |-> NoServices]

\* the second artist's search failed after the first artist's relation fetch did
C8_BothCallsFailed ==
    /\ pc = "output"
    /\ Len(results) = 2
    /\ results[1].mb_found /\ ~results[2].mb_found
    /\ resp = [op |-> "search", kind |-> "ConnectionError"]

\* C10 as stated (SpecClient): the interval runs from the completion of the
\* previous request.
C10_IntervalFromCompletion ==
    Len(reqs) = 2 => reqs[2].issued - reqs[1].completed[1] >= MB_RATE_LIMIT

\* C10 amended (SpecClient): the timestamp is the time the latest request was
\* issued at, also once its response is back; the next request is issued no
\* earlier than the previous one completed and at least MB_RATE_LIMIT after
\* the previous one was issued.
C10_TimestampAtIssue ==
    /\ reqs # <<>> => last_request_time = reqs[Len(reqs)].issued
    /\ Len(reqs) = 2 =>
          /\ reqs[2].issued >= reqs[1].completed[1]
          /\ reqs[2].issued >= reqs[1].issued + MB_RATE_LIMIT

\* a response that took a whole interval, and the next request issued the
\* moment it was back
C10_SlowResponseNoWait ==
    /\ Len(reqs) = 2
    /\ reqs[1].completed = <<reqs[1].issued + MB_RATE_LIMIT>>
    /\ reqs[2].issued = reqs[1].completed[1]
    /\ reqs[2].completed # <<>>

(***************************************************************************)
(* import_nfo_albums.py: extract_musicbrainz_id.                           *)
(*                                                                         *)
(* An album.nfo file is described by what the two readers of the function  *)
(* find in it: whether it can be opened, whether ElementTree parses it,    *)
(* whether it decodes as UTF-8, and for each of the two tags whether it    *)
(* occurs and with which text.  A tag is <<>> when the file has none,      *)
(* << <<>> >> when it is empty (ElementTree gives text None, the raw text  *)
(* between the tags is "") and << <<text>> >> otherwise.                   *)
(***************************************************************************)
\* the length the two regular expressions ask for: {36}
TokenLength == 36

TokenChars == "abcdefABCDEF0123456789-"

TokenCharSet == {CharAt(TokenChars, k) : k \in 1..Len(TokenChars)}

\* the group ([a-f0-9-]{36}) under re.IGNORECASE, between the two tags
MatchesToken(text) ==
    /\ Len(text) = TokenLength
    /\ \A k \in 1..Len(text) : CharAt(text, k) \in TokenCharSet

\* str.lstrip()
RECURSIVE StripLeft(_)
StripLeft(s) ==
    IF Len(s) > 0 /\ CharAt(s, 1) = " " THEN StripLeft(SubSeq(s, 2, Len(s))) ELSE s

\* str.strip()
RECURSIVE Strip(_)
Strip(s) ==
    IF Len(s) > 0 /\ CharAt(s, 1) = " " THEN Strip(SubSeq(s, 2, Len(s)))
    ELSE IF Len(s) > 0 /\ CharAt(s, Len(s)) = " " THEN Strip(SubSeq(s, 1, Len(s) - 1))
    ELSE s

ReleaseGroupId == "0a1b2c3d-4e5f-4a6b-8c7d-9e0f1a2b3c4d"
ReleaseId == "11111111-2222-4333-8444-555555555555"

TagsWith(id) ==
    {<<>>, << <<>> >>, << <<"  ">> >>, << <<id>> >>, << <<" " \o id \o "  ">> >>,
     << <<"unknown">> >>}

NfoFiles ==
    {[readable |-> FALSE, wellformed |-> FALSE, decodable |-> FALSE, rg |-> <<>>, alb |-> <<>>],
     [readable |-> TRUE, wellformed |-> FALSE, decodable |-> FALSE, rg |-> <<>>, alb |-> <<>>]}
    \cup [readable : {TRUE}, wellformed : BOOLEAN, decodable : {TRUE},
          rg : TagsWith(ReleaseGroupId), alb : TagsWith(ReleaseId)]

\* root.find('.//tag') followed by "mb_id is not None and mb_id.text"
HasText(tag) == tag # <<>> /\ tag[1] # <<>> /\ tag[1][1] # ""

\* lines 69-76: the structured reading
StructuredId(f) ==
    IF HasText(f.rg) THEN <<Strip(f.rg[1][1])>>
    ELSE IF HasText(f.alb) THEN <<Strip(f.alb[1][1])>>
    ELSE <<>>

\* re.search(r'<tag>([a-f0-9-]{36})</tag>', content, re.IGNORECASE)
TagMatch(tag) == tag # <<>> /\ tag[1] # <<>> /\ MatchesToken(tag[1][1])

\* lines 80-91: the reading of the raw text; a read or decode error is
\* caught and printed
PatternId(f) ==
    IF ~f.decodable THEN <<>>
    ELSE IF TagMatch(f.rg) THEN <<f.rg[1][1]>>
    ELSE IF TagMatch(f.alb) THEN <<f.alb[1][1]>>
    ELSE <<>>

\* what extract_musicbrainz_id returns (<<>> is None), or the exception it
\* lets through: ET.parse raises OSError for a file it cannot open, and the
\* outer handler is for ET.ParseError only
extract_musicbrainz_id(f) ==
    IF ~f.readable THEN [raised |-> <<"OSError">>, value |-> <<>>]
    ELSE IF f.wellformed THEN [raised |-> <<>>, value |-> StructuredId(f)]
    ELSE [raised |-> <<>>, value |-> PatternId(f)]

(***************************************************************************)
(* extract_musicbrainz_id on one file, step by step: the structured        *)
(* reading first, the reading of the raw text when the markup is broken.   *)
(***************************************************************************)
InitExtract ==
    /\ ext_pc = "parse"
    /\ nfo \in NfoFiles
    /\ ext_value = <<>>
    /\ pc = "none"
    /\ IdleChecker
    /\ IdleStreaming
    /\ IdleImport
    /\ IdleArtists

\* lines 64-78: ET.parse and the two finds
ExtractParse ==
    /\ ext_pc = "parse"
    /\ IF ~nfo.readable
       THEN ext_pc' = "raised" /\ UNCHANGED ext_value
       ELSE IF nfo.wellformed
            THEN ext_pc' = "returned" /\ ext_value' = StructuredId(nfo)
            ELSE ext_pc' = "fallback" /\ UNCHANGED ext_value
    /\ UNCHANGED <<nfo, cvars, svars, nvars, avars>>

\* lines 78-93: except ET.ParseError
ExtractFallback ==
    /\ ext_pc = "fallback"
    /\ ext_pc' = "returned"
    /\ ext_value' = PatternId(nfo)
    /\ UNCHANGED <<nfo, cvars, svars, nvars, avars>>

NextExtract == ExtractParse \/ ExtractFallback

SpecExtract == InitExtract /\ [][NextExtract]_vars

(***************************************************************************)
(* import_nfo_albums.py: check_album_exists and add_album_to_lidarr.       *)
(*                                                                         *)
(* A JSON object is a record of optional fields, <<>> for a key that is    *)
(* missing.  Of the album's fields that the payload copies with            *)
(* album_data.get(key, default), title and duration stand for the rest.    *)
(***************************************************************************)
MaxFiles == 2

QUALITY_PROFILE_ID == 1
METADATA_PROFILE_ID == 1
ROOT_FOLDER_PATH == "/music"

\* str.endswith
EndsWith(s, suffix) ==
    /\ Len(s) >= Len(suffix)
    /\ SubSeq(s, Len(s) - Len(suffix) + 1, Len(s)) = suffix

\* truth value of dict.get(key) where the value is a dict
DictTruthy(opt) == opt # <<>> /\ \E key \in DOMAIN opt[1] : opt[1][key] # <<>>

Artist(quality, metadata, folder, monitored) ==
    [artistName |-> <<"Artist">>, qualityProfileId |-> quality,
     metadataProfileId |-> metadata, rootFolderPath |-> folder, monitored |-> monitored]

FullArtist == Artist(<<2>>, <<3>>, <<"/data">>, <<TRUE>>)
SparseArtist == Artist(<<>>, <<>>, <<>>, <<>>)
ZeroArtist == Artist(<<0>>, <<3>>, <<"">>, <<FALSE>>)
EmptyArtist == [artistName |-> <<>>, qualityProfileId |-> <<>>, metadataProfileId |-> <<>>,
                rootFolderPath |-> <<>>, monitored |-> <<>>]

Album(foreign_id, title, artist) ==
    [foreignAlbumId |-> foreign_id, title |-> <<title>>, duration |-> <<>>, artist |-> artist]

\* a search result that is the album object itself
Direct(foreign_id, title, artist) ==
    [album |-> <<>>, artist |-> artist, foreignAlbumId |-> foreign_id,
     title |-> <<title>>, duration |-> <<>>]

\* a search result with the album under 'album' and an artist beside it
Nested(foreign_id, title, inner, beside) ==
    [album |-> <<Album(foreign_id, title, inner)>>, artist |-> beside,
     foreignAlbumId |-> <<>>, title |-> <<>>, duration |-> <<>>]

OtherId == "99999999-aaaa-4bbb-8ccc-dddddddddddd"

Qualified(id) == "lidarr:" \o id

ProperSuffix(id) == SubSeq(id, 2, Len(id))

\* the albums Lidarr holds when the run starts
Catalogs ==
    {<<>>,
     <<Album(<<ReleaseGroupId>>, "held", <<FullArtist>>)>>,
     <<Album(<<OtherId>>, "other", <<FullArtist>>), Album(<<ReleaseId>>, "held", <<FullArtist>>)>>,
     <<Album(<<>>, "no id", <<>>), Album(<<Qualified(ReleaseGroupId)>>, "qualified", <<>>)>>}

Response(status_code, json) == [raised |-> FALSE, status_code |-> status_code, json |-> json]

\* requests raised instead of answering; also response.json() on a body
\* that is not JSON
Failure == [raised |-> TRUE, status_code |-> 0, json |-> <<>>]

AlbumResponses(held) == {Response(200, held), Response(401, <<>>), Response(500, <<>>), Failure}

\* what GET /api/v1/search may answer for lidarr:<id>
SearchAnswers(id) ==
    {<<>>,
     <<Direct(<<id>>, "exact", <<FullArtist>>)>>,
     <<Nested(<<Qualified(id)>>, "qualified", <<FullArtist>>, <<>>)>>,
     <<Direct(<<OtherId>>, "other", <<FullArtist>>), Direct(<<id>>, "exact", <<SparseArtist>>)>>,
     <<Direct(<<Qualified(id)>>, "qualified", <<ZeroArtist>>),
       Direct(<<id>>, "exact", <<FullArtist>>)>>,
     <<Direct(<<OtherId>>, "other", <<FullArtist>>)>>,
     <<Direct(<<ProperSuffix(id)>>, "shorter", <<FullArtist>>)>>,
     <<Nested(<<id>>, "exact", <<>>, <<FullArtist>>)>>,
     <<Direct(<<id>>, "exact", <<>>)>>,
     <<Direct(<<>>, "no id", <<FullArtist>>),
       Nested(<<id>>, "exact", <<SparseArtist>>, <<FullArtist>>)>>,
     <<Direct(<<id>>, "exact", <<EmptyArtist>>)>>,
     <<Direct(<<OtherId>>, "other", <<>>), Direct(<<ProperSuffix(id)>>, "shorter", <<>>),
       Nested(<<Qualified(id)>>, "qualified", <<ZeroArtist>>, <<>>)>>}

LidarrSearchResponses(id) ==
    {Response(200, answer) : answer \in SearchAnswers(id)}
    \cup {Response(404, <<>>), Response(500, <<>>), Failure}

PostResponses == {Response(200, <<>>), Response(201, <<>>), Response(400, <<>>),
                  Response(409, <<>>), Response(500, <<>>), Failure}

\* check_album_exists that takes a failed query for a held album
check_album_exists_unless_answered(response, id) ==
    \/ response.raised
    \/ response.status_code # 200
    \/ \E k \in DOMAIN response.json : response.json[k].foreignAlbumId = <<id>>

\* check_album_exists looking at the first album only
check_album_exists_first_only(response, id) ==
    /\ ~response.raised
    /\ response.status_code = 200
    /\ response.json # <<>>
    /\ response.json[1].foreignAlbumId = <<id>>

\* lines 105-117, given the answer to GET /api/v1/album
check_album_exists(response, id) ==
    /\ ~response.raised
    /\ response.status_code = 200
    /\ \E k \in DOMAIN response.json : response.json[k].foreignAlbumId = <<id>>

\* lines 170-175: the album of a search result
CurrentAlbum(search_result) ==
    IF DictTruthy(search_result.album)
    THEN search_result.album[1]
    ELSE [foreignAlbumId |-> search_result.foreignAlbumId, title |-> search_result.title,
          duration |-> search_result.duration, artist |-> search_result.artist]

\* the test of line 179 with the two strings exchanged
IsOurAlbumExchanged(current_album, id) ==
    LET foreign_id == Get(current_album.foreignAlbumId, "")
    IN  foreign_id = id \/ EndsWith(id, foreign_id)

\* lines 178-179
IsOurAlbum(current_album, id) ==
    LET foreign_id == Get(current_album.foreignAlbumId, "")
    IN  foreign_id = id \/ EndsWith(foreign_id, id)

\* line 178: the foreign id the loop reads from a search result
ForeignIdOf(search_result) == Get(CurrentAlbum(search_result).foreignAlbumId, "")

\* a scan that runs to the end and keeps the last result that matches
RECURSIVE FindAlbumKeepLast(_, _, _)
FindAlbumKeepLast(search_results, id, k) ==
    IF k > Len(search_results) THEN 0
    ELSE LET later == FindAlbumKeepLast(search_results, id, k + 1)
         IN  IF later # 0 THEN later
             ELSE IF \/ ForeignIdOf(search_results[k]) = id
                     \/ EndsWith(ForeignIdOf(search_results[k]), id)
                  THEN k ELSE 0

\* a scan that settles for the first result whatever its foreign id
FindAlbumTakeFirst(search_results, id, k) == IF search_results = <<>> THEN 0 ELSE 1

\* lines 168-183: the position of the result the loop breaks at, 0 when it
\* runs to the end
RECURSIVE FindAlbum(_, _, _)
FindAlbum(search_results, id, k) ==
    IF k > Len(search_results) THEN 0
    ELSE IF IsOurAlbum(CurrentAlbum(search_results[k]), id) THEN k
    ELSE FindAlbum(search_results, id, k + 1)

\* lines 201-209: "if not artist_data.get(key)" is true of a missing key
\* and of 0, "" and False
EnsureRequiredFields(artist) ==
    [artist EXCEPT
        !.qualityProfileId = IF @ = <<>> \/ @ = <<0>> THEN <<QUALITY_PROFILE_ID>> ELSE @,
        !.metadataProfileId = IF @ = <<>> \/ @ = <<0>> THEN <<METADATA_PROFILE_ID>> ELSE @,
        !.rootFolderPath = IF @ = <<>> \/ @ = <<"">> THEN <<ROOT_FOLDER_PATH>> ELSE @,
        !.monitored = IF @ = <<>> \/ @ = <<FALSE>> THEN <<TRUE>> ELSE @]

\* lines 212-233
Payload(album, artist, id) ==
    [title |-> album.title,
     foreignAlbumId |-> id,
     monitored |-> TRUE,
     anyReleaseOk |-> TRUE,
     profileId |-> QUALITY_PROFILE_ID,
     duration |-> Get(album.duration, 0),
     artist |-> artist,
     addOptions |-> [searchForNewAlbum |-> FALSE]]

\* lines 149-209, given the answer to GET /api/v1/search: the value
\* returned before the POST (<<>> when the function goes on to it), the
\* position of the matched result, album_data and artist_data
SearchOutcome(response, id) ==
    LET none == [returned |-> <<"False">>, matched |-> 0, album_data |-> <<>>,
                 artist_data |-> <<>>]
        k == FindAlbum(response.json, id, 1)
        album == CurrentAlbum(response.json[k])
    IN  IF response.raised \/ response.status_code # 200 \/ response.json = <<>> \/ k = 0
        THEN none
        ELSE IF ~DictTruthy(album.artist)
        THEN [none EXCEPT !.matched = k, !.album_data = <<album>>]
        ELSE [returned |-> <<>>, matched |-> k,
              album_data |-> <<[album EXCEPT !.artist = <<EnsureRequiredFields(@[1])>>]>>,
              artist_data |-> <<EnsureRequiredFields(album.artist[1])>>]

Request(method, url, term, json) ==
    [method |-> method, url |-> url, term |-> term, json |-> json]

(***************************************************************************)
(* import_nfo_albums.py: main.  The files are read when the loop comes to  *)
(* them; Lidarr answers each request as it arrives, and holds an album     *)
(* once it has accepted the POST for it.                                   *)
(***************************************************************************)
InitImport ==
    /\ nfo_pc = "find_nfo_files"
    /\ nfo_files = <<>>
    /\ nfo_idx = 1
    /\ mb_id = <<>>
    /\ added = 0
    /\ failed = 0
    /\ skipped = 0
    /\ already_exists = 0
    /\ catalog \in Catalogs
    /\ http = <<>>
    /\ responses = <<>>
    /\ album_data = <<>>
    /\ artist_data = <<>>
    /\ result = <<>>
    /\ raised = <<>>
    /\ pc = "none"
    /\ IdleChecker
    /\ IdleStreaming
    /\ IdleExtract
    /\ IdleArtists

\* where the for statement of line 265 goes with the loop at position k
LoopAt(k) == IF k <= Len(nfo_files) THEN "extract" ELSE "summary"

\* lines 256-263
FindNfoFiles ==
    /\ nfo_pc = "find_nfo_files"
    /\ \E n \in 0..MaxFiles :
          /\ nfo_files' = [k \in 1..n |-> k]
          /\ nfo_pc' = IF n > 0 THEN "extract" ELSE "summary"
    /\ UNCHANGED <<nfo_idx, mb_id, added, failed, skipped, already_exists, catalog, http,
                   responses, album_data, artist_data, result, raised, cvars, svars, evars, avars>>

\* lines 277-282, and on to the next file
Classify(returned) ==
    /\ result' = <<returned>>
    /\ added' = IF returned = "True" THEN added + 1 ELSE added
    /\ already_exists' = IF returned = "None" THEN already_exists + 1 ELSE already_exists
    /\ failed' = IF returned = "False" THEN failed + 1 ELSE failed
    /\ nfo_idx' = nfo_idx + 1
    /\ nfo_pc' = LoopAt(nfo_idx + 1)

\* what extract_musicbrainz_id does with the files there may be
Extractions == {extract_musicbrainz_id(f) : f \in NfoFiles}

\* lines 265-274: the file is read; an exception of extract_musicbrainz_id
\* meets no handler in main
Extract ==
    /\ nfo_pc = "extract"
    /\ \E extracted \in Extractions :
              IF extracted.raised # <<>>
              THEN /\ raised' = extracted.raised
                   /\ nfo_pc' = "aborted"
                   /\ mb_id' = <<>>
                   /\ UNCHANGED <<nfo_idx, skipped>>
              ELSE /\ mb_id' = extracted.value
                   /\ IF extracted.value = <<>> \/ extracted.value = <<"">>
                      THEN /\ skipped' = skipped + 1
                           /\ nfo_idx' = nfo_idx + 1
                           /\ nfo_pc' = LoopAt(nfo_idx + 1)
                      ELSE /\ nfo_pc' = "check_album_exists"
                           /\ UNCHANGED <<nfo_idx, skipped>>
                   /\ UNCHANGED raised
    /\ http' = <<>>
    /\ responses' = <<>>
    /\ album_data' = <<>>
    /\ artist_data' = <<>>
    /\ result' = <<>>
    /\ UNCHANGED <<nfo_files, added, failed, already_exists, catalog, cvars, svars, evars, avars>>

\* lines 136-138 with check_album_exists
CheckAlbumExists ==
    /\ nfo_pc = "check_album_exists"
    /\ \E response \in AlbumResponses(catalog) :
          /\ http' = <<Request("GET", "/api/v1/album", <<>>, <<>>)>>
          /\ responses' = <<response>>
          /\ IF check_album_exists(response, mb_id[1])
             THEN Classify("None")
             ELSE /\ nfo_pc' = "search"
                  /\ UNCHANGED <<result, added, already_exists, failed, nfo_idx>>
    /\ UNCHANGED <<nfo_files, mb_id, skipped, catalog, album_data, artist_data, raised,
                   cvars, svars, evars, avars>>

\* lines 141-209: the search, the match and the artist
SearchAlbum ==
    /\ nfo_pc = "search"
    /\ \E response \in LidarrSearchResponses(mb_id[1]) :
          LET outcome == SearchOutcome(response, mb_id[1])
          IN  /\ http' = Append(http, Request("GET", "/api/v1/search",
                                              <<"lidarr:" \o mb_id[1]>>, <<>>))
              /\ responses' = Append(responses, response)
              /\ album_data' = outcome.album_data
              /\ artist_data' = outcome.artist_data
              /\ IF outcome.returned # <<>>
                 THEN Classify(outcome.returned[1])
                 ELSE /\ nfo_pc' = "post"
                      /\ UNCHANGED <<result, added, already_exists, failed, nfo_idx>>
    /\ UNCHANGED <<nfo_files, mb_id, skipped, catalog, raised, cvars, svars, evars, avars>>

\* a test that takes every answer to the POST for a success
CreatedWhenAnswered(response) == ~response.raised

\* line 237: response.status_code in [200, 201]; an exception of
\* requests.post is caught at line 246
Created(response) == ~response.raised /\ response.status_code \in {200, 201}

\* lines 212-248: the payload, the POST and what its status means
PostAlbum ==
    /\ nfo_pc = "post"
    /\ \E response \in PostResponses :
          LET payload == Payload(album_data[1], artist_data[1], mb_id[1])
              created == Created(response)
          IN  /\ http' = Append(http, Request("POST", "/api/v1/album", <<>>, <<payload>>))
              /\ responses' = Append(responses, response)
              /\ Classify(IF created THEN "True" ELSE "False")
              /\ catalog' = IF created
                            THEN Append(catalog, Album(<<payload.foreignAlbumId>>, "added", <<>>))
                            ELSE catalog
    /\ UNCHANGED <<nfo_files, mb_id, skipped, album_data, artist_data, raised,
                   cvars, svars, evars, avars>>

\* lines 286-293
Summary ==
    /\ nfo_pc = "summary"
    /\ nfo_pc' = "done"
    /\ UNCHANGED <<nfo_files, nfo_idx, mb_id, added, failed, skipped, already_exists, catalog,
                   http, responses, album_data, artist_data, result, raised,
                   cvars, svars, evars, avars>>

NextImport ==
    \/ FindNfoFiles
    \/ Extract
    \/ CheckAlbumExists
    \/ SearchAlbum
    \/ PostAlbum
    \/ Summary

SpecImport == InitImport /\ [][NextImport]_vars

(***************************************************************************)
(* Properties of extract_musicbrainz_id.                                   *)
(***************************************************************************)
\* C9: extract_musicbrainz_id returns either None or a token of the
\* 36-character hyphenated hexadecimal pattern, never the empty string and
\* never any other text, whichever of the two readings produced it.
C9_NoneOrWellFormedToken ==
    ext_pc = "returned" => (ext_value = <<>> \/ MatchesToken(ext_value[1]))

(***************************************************************************)
(* Properties of the import run.                                           *)
(***************************************************************************)
\* C2: no exception raised while one file is handled ends the run: main
\* catches it, counts the file as failed and goes on to the next file, so
\* the run is never aborted.
C2_NoItemEndsTheRun == raised = <<>> /\ nfo_pc # "aborted"

\* C3: when a run has ended, the four counters add up to the number of
\* album.nfo files that were found.
C3_CountersSumToTotal ==
    nfo_pc \in {"done", "aborted"} =>
        added + already_exists + failed + skipped = Len(nfo_files)

\* C4 as stated: once the catalog check has been made for an identifier
\* that Lidarr held at that moment, the file is classified as already
\* present and no further request is sent for it.
C4_HeldAlbumIsAlreadyPresent ==
    LET held == IF result = <<"True">> THEN SubSeq(catalog, 1, Len(catalog) - 1) ELSE catalog
    IN  (http # <<>> /\ \E k \in DOMAIN held : held[k].foreignAlbumId = mb_id) =>
            (result = <<"None">> /\ Len(http) = 1)

\* C4: whenever GET /api/v1/album answers 200 with a list that contains an
\* album whose foreignAlbumId equals the identifier exactly, the file is
\* classified as already present (None) and neither the search nor the POST
\* is sent for it.
C4_ListedAlbumIsAlreadyPresent ==
    (/\ responses # <<>>
     /\ ~responses[1].raised
     /\ responses[1].status_code = 200
     /\ \E k \in DOMAIN responses[1].json : responses[1].json[k].foreignAlbumId = mb_id) =>
        (result = <<"None">> /\ Len(http) = 1 /\ http[1].method = "GET")

\* the album Lidarr held was found behind another one and the file counted
C4_HeldAlbumFoundSecond ==
    /\ result = <<"None">>
    /\ Len(responses[1].json) = 2
    /\ responses[1].json[2].foreignAlbumId = mb_id
    /\ already_exists = 1
    /\ Len(http) = 1

\* C5 as stated: a search result whose foreign id is a proper suffix of the
\* identifier, with no result before it that equals the identifier or is a
\* suffix of it, is the album that is matched.
C5_ShorterResultIsMatched ==
    (Len(responses) >= 2 /\ ~responses[2].raised /\ responses[2].status_code = 200) =>
        LET json == responses[2].json
            id == mb_id[1]
            ids == [k \in DOMAIN json |-> Get(CurrentAlbum(json[k]).foreignAlbumId, "")]
        IN  \A j \in DOMAIN json :
                (/\ ids[j] # "" /\ ids[j] # id /\ EndsWith(id, ids[j])
                 /\ \A k \in 1..(j - 1) : ids[k] = "" \/ ~EndsWith(id, ids[k])) =>
                    (album_data # <<>> /\ album_data[1].title = CurrentAlbum(json[j]).title)

\* C5: a search result whose foreign id ends with the identifier (the
\* result's id being the longer, namespace-qualified string), with no
\* result before it that equals or ends with the identifier, is the album
\* that is matched, and everything that follows is what it would have been
\* had that foreign id been the identifier itself: the same album and
\* artist, the same return value, the same payload with the identifier as
\* its foreignAlbumId.
C5_QualifiedResultIsMatched ==
    (Len(responses) >= 2 /\ ~responses[2].raised /\ responses[2].status_code = 200) =>
        LET json == responses[2].json
            id == mb_id[1]
            ids == [k \in DOMAIN json |-> Get(CurrentAlbum(json[k]).foreignAlbumId, "")]
        IN  \A j \in DOMAIN json :
                (/\ ids[j] # id /\ EndsWith(ids[j], id)
                 /\ \A k \in 1..(j - 1) : ~EndsWith(ids[k], id)) =>
                    LET exact == IF DictTruthy(json[j].album)
                                 THEN [json[j] EXCEPT !.album[1].foreignAlbumId = <<id>>]
                                 ELSE [json[j] EXCEPT !.foreignAlbumId = <<id>>]
                        twin == SearchOutcome(Response(200, [json EXCEPT ![j] = exact]), id)
                    IN  /\ album_data # <<>>
                        /\ album_data[1].foreignAlbumId = <<ids[j]>>
                        /\ [album_data[1] EXCEPT !.foreignAlbumId = <<id>>] = twin.album_data[1]
                        /\ artist_data = twin.artist_data
                        /\ Len(http) = 2 => result = twin.returned
                        /\ Len(http) = 3 =>
                              /\ http[3].json[1].foreignAlbumId = id
                              /\ http[3].json[1] =
                                    Payload(twin.album_data[1], twin.artist_data[1], id)

\* an album found under a qualified id, behind two others, was added
C5_QualifiedResultAdded ==
    /\ result = <<"True">>
    /\ Len(responses[2].json) = 3
    /\ album_data[1].foreignAlbumId = <<Qualified(mb_id[1])>>
    /\ http[3].json[1].foreignAlbumId = mb_id[1]
    /\ added = 1

\* C11: for a file that has an identifier the requests follow the state
\* machine of add_album_to_lidarr: the catalog GET comes first, the search
\* GET second and only when the file was not classified as already present,
\* the POST third, at most once and only when a result of the search
\* matched; once the function has returned no further request is sent for
\* the file; and a file ends as exactly one of already present, added,
\* failed and not found, not found (without a POST) being the end of every
\* search whose answer holds no matching result.
C11_ProtocolStateMachine ==
    /\ [](LET n == Len(http)
              searched == n >= 2 /\ ~responses[2].raised /\ responses[2].status_code = 200
              matching == IF searched
                          THEN {k \in DOMAIN responses[2].json :
                                   \/ ForeignIdOf(responses[2].json[k]) = mb_id[1]
                                   \/ EndsWith(ForeignIdOf(responses[2].json[k]), mb_id[1])}
                          ELSE {}
              ALREADY_PRESENT == result = <<"None">> /\ n = 1
              ADDED == result = <<"True">> /\ n = 3
              FAILED == result = <<"False">> /\ (n = 3 \/ (n = 2 /\ ~searched))
              NOT_FOUND == result = <<"False">> /\ n = 2 /\ searched
          IN  /\ n <= 3 /\ Len(responses) = n
              /\ n >= 1 => http[1].method = "GET" /\ http[1].url = "/api/v1/album"
              /\ n >= 2 => /\ http[2].method = "GET" /\ http[2].url = "/api/v1/search"
                           /\ ~check_album_exists(responses[1], mb_id[1])
                           /\ result # <<"None">>
              /\ n = 3 => /\ http[3].method = "POST" /\ http[3].url = "/api/v1/album"
                          /\ matching # {}
              /\ (n = 2 /\ searched /\ matching = {}) => result = <<"False">>
              /\ result # <<>> =>
                    /\ ALREADY_PRESENT \/ ADDED \/ FAILED \/ NOT_FOUND
                    /\ ~(ALREADY_PRESENT /\ ADDED) /\ ~(ALREADY_PRESENT /\ FAILED)
                    /\ ~(ALREADY_PRESENT /\ NOT_FOUND) /\ ~(ADDED /\ FAILED)
                    /\ ~(ADDED /\ NOT_FOUND) /\ ~(FAILED /\ NOT_FOUND))
    /\ [][result # <<>> => (http' = http \/ http' = <<>>)]_vars

\* a search answered with results none of which matched, and no POST
C11_NotFoundWithoutPost ==
    /\ result = <<"False">>
    /\ Len(http) = 2
    /\ responses[2].status_code = 200
    /\ Len(responses[2].json) = 1
    /\ ForeignIdOf(responses[2].json[1]) = OtherId
    /\ failed = 1

\* C12: in the payload of the POST, each of qualityProfileId,
\* metadataProfileId, rootFolderPath and monitored of the artist is the
\* value Lidarr's search gave for the matched album's artist whenever it
\* gave one, whatever that value is, and the configured default only where
\* the key was missing.
C12_PopulatedFieldsReachPayload ==
    Len(http) = 3 =>
        LET json == responses[2].json
            j == CHOOSE k \in DOMAIN json :
                    /\ EndsWith(ForeignIdOf(json[k]), mb_id[1])
                    /\ \A i \in 1..(k - 1) : ~EndsWith(ForeignIdOf(json[i]), mb_id[1])
            given == CurrentAlbum(json[j]).artist[1]
            sent == http[3].json[1].artist
        IN  /\ sent.artistName = given.artistName
            /\ sent.qualityProfileId =
                  IF given.qualityProfileId = <<>> THEN <<QUALITY_PROFILE_ID>>
                  ELSE given.qualityProfileId
            /\ sent.metadataProfileId =
                  IF given.metadataProfileId = <<>> THEN <<METADATA_PROFILE_ID>>
                  ELSE given.metadataProfileId
            /\ sent.rootFolderPath =
                  IF given.rootFolderPath = <<>> THEN <<ROOT_FOLDER_PATH>>
                  ELSE given.rootFolderPath
            /\ sent.monitored = IF given.monitored = <<>> THEN <<TRUE>> ELSE given.monitored

\* C13: of the results of a search, the album taken is the first, in the
\* order of the answer, whose foreign id equals the identifier or ends with
\* it; a later result that matches as well is never the one taken, and
\* when no result matches no album is taken and nothing is posted.
C13_FirstMatchWins ==
    (Len(http) >= 2 /\ ~responses[2].raised /\ responses[2].status_code = 200) =>
        LET json == responses[2].json
            matching == {k \in DOMAIN json :
                            \/ ForeignIdOf(json[k]) = mb_id[1]
                            \/ EndsWith(ForeignIdOf(json[k]), mb_id[1])}
        IN  IF matching = {}
            THEN album_data = <<>> /\ Len(http) = 2 /\ result = <<"False">>
            ELSE LET first == CHOOSE k \in matching : \A i \in matching : k <= i
                     taken == CurrentAlbum(json[first])
                 IN  /\ album_data # <<>>
                     /\ album_data[1].foreignAlbumId = taken.foreignAlbumId
                     /\ album_data[1].title = taken.title
                     /\ Len(http) = 3 => http[3].json[1].title = taken.title

\* two results matched and the first of them was posted
C13_FirstOfTwoMatchesPosted ==
    /\ Len(http) = 3
    /\ Len(responses[2].json) = 2
    /\ ForeignIdOf(responses[2].json[1]) = Qualified(mb_id[1])
    /\ ForeignIdOf(responses[2].json[2]) = mb_id[1]
    /\ http[3].json[1].title = <<"qualified">>

\* C14: the matched result is posted exactly when an artist comes with
\* it, be it inside the album object or beside it in the search result:
\* with an artist the function goes on to the POST and posts that artist,
\* without one it returns False and no POST is sent.
C14_ArtistInsideOrBeside ==
    (Len(http) >= 2 /\ ~responses[2].raised /\ responses[2].status_code = 200) =>
        LET json == responses[2].json
            matching == {k \in DOMAIN json :
                            \/ ForeignIdOf(json[k]) = mb_id[1]
                            \/ EndsWith(ForeignIdOf(json[k]), mb_id[1])}
        IN  matching # {} =>
                LET first == CHOOSE k \in matching : \A i \in matching : k <= i
                    inside == CurrentAlbum(json[first]).artist
                    beside == json[first].artist
                    associated == IF DictTruthy(inside) THEN inside ELSE beside
                IN  IF DictTruthy(associated)
                    THEN /\ result # <<"False">> \/ Len(http) = 3
                         /\ Len(http) = 3 =>
                               http[3].json[1].artist.artistName = associated[1].artistName
                    ELSE result = <<"False">> /\ Len(http) = 2

\* C15: the step that sends the POST classifies the file as added (True,
\* one more in added) exactly when the answer has status 200 or 201; every
\* other status and every failure of the request classifies it as failed
\* (False, one more in failed), and main goes on: no exception leaves
\* add_album_to_lidarr.
C15_PostClassification ==
    [][(Len(http) = 2 /\ Len(http') = 3) =>
          /\ http'[3].method = "POST"
          /\ raised' = <<>> /\ nfo_pc' \in {"extract", "summary"}
          /\ already_exists' = already_exists /\ skipped' = skipped
          /\ IF ~responses'[3].raised /\ responses'[3].status_code \in {200, 201}
             THEN result' = <<"True">> /\ added' = added + 1 /\ failed' = failed
             ELSE result' = <<"False">> /\ failed' = failed + 1 /\ added' = added]_vars

\* a second file failed on a POST that Lidarr refused or that did not get through
C15_RefusedPostCountedFailed ==
    /\ Len(http) = 3
    /\ responses[3].raised \/ responses[3].status_code = 409
    /\ result = <<"False">>
    /\ failed = 2
    /\ added = 0

(***************************************************************************)
(* Properties of the loop of spotify_playlist_checker.main.                *)
(***************************************************************************)
\* C16: when the result of an artist is appended, either the search
\* returned no artist, the result has mb_found false and no service, and
\* the search is still the last request sent (no relation list was asked
\* for); or the search returned artists, the two last requests are that
\* search and one request for the relations of the first artist returned,
\* and the result has mb_found true and the services found in the
\* relations that request returned.
C16_OneRelationRequestForFirstArtist ==
    [][Len(results') = Len(results) + 1 =>
          LET r == results'[Len(results')]
              n == Len(reqs')
              found == mb_search'.artists # <<>> /\ mb_search'.artists[1] # <<>>
          IN  /\ r.spotify_id = artists[idx].id
              /\ IF ~found
                 THEN /\ r.mb_found = FALSE
                      /\ r.services = [s \in Services |-> FALSE]
                      /\ reqs'[n].op = "search" /\ reqs'[n].arg = artists[idx].id
                      /\ calls' = calls
                 ELSE /\ r.mb_found = TRUE
                      /\ n = 2
                      /\ reqs'[1].op = "search" /\ reqs'[1].arg = artists[idx].id
                      /\ reqs'[2].op = "urls"
                      /\ reqs'[2].arg = mb_search'.artists[1][1].id
                      /\ calls' = calls
                      /\ r.services = check_streaming_services(relations')]_vars

\* the search returned two artists and the relations of the first were read
C16_FirstOfTwoArtistsChecked ==
    /\ results # <<>>
    /\ pc \in {"search", "output"}
    /\ mb_search.artists # <<>>
    /\ Len(mb_search.artists[1]) = 2
    /\ Len(reqs) = 2
    /\ reqs[2].op = "urls" /\ reqs[2].arg = "mb2" /\ reqs[2].completed # <<>>
    /\ results[Len(results)].mb_found
    /\ results[Len(results)].services.tidal

(***************************************************************************)
(* More properties of extract_musicbrainz_id.                              *)
(***************************************************************************)
\* C17: for a file that ElementTree parses, the value returned is the text
\* of the release-group tag when that tag is there with text, otherwise the
\* text of the release tag when that one is there with text, otherwise
\* None, an empty tag counting as a missing one; the text is returned
\* without the whitespace around it; and the reading of the raw text is
\* entered only for a file that failed to parse.
C17_StructuredReading ==
    /\ ext_pc = "fallback" => (nfo.readable /\ ~nfo.wellformed)
    /\ (ext_pc = "returned" /\ nfo.wellformed) =>
          LET Field(tag) == IF tag = <<>> \/ tag[1] = <<>> \/ tag[1][1] = "" THEN <<>>
                            ELSE tag[1]
              chosen == IF Field(nfo.rg) # <<>> THEN Field(nfo.rg) ELSE Field(nfo.alb)
              Blank(t) == \A k \in 1..Len(t) : CharAt(t, k) = " "
          IN  IF chosen = <<>>
              THEN ext_value = <<>>
              ELSE /\ ext_value # <<>>
                   /\ \E a \in 0..Len(chosen[1]) : \E b \in a..Len(chosen[1]) :
                         /\ ext_value[1] = SubSeq(chosen[1], a + 1, b)
                         /\ Blank(SubSeq(chosen[1], 1, a))
                         /\ Blank(SubSeq(chosen[1], b + 1, Len(chosen[1])))
                   /\ ext_value[1] # "" =>
                         /\ CharAt(ext_value[1], 1) # " "
                         /\ CharAt(ext_value[1], Len(ext_value[1])) # " "

\* an empty release-group tag was passed over and the release id, with
\* whitespace around it, returned without it
C17_EmptyTagThenPaddedReleaseId ==
    /\ ext_pc = "returned"
    /\ nfo.wellformed
    /\ nfo.rg = << <<>> >>
    /\ nfo.alb = << <<" " \o ReleaseId \o "  ">> >>
    /\ ext_value = <<ReleaseId>>

(***************************************************************************)
(* mb_lidarr_import.py: LidarrAPI.search_artist, LidarrAPI.add_artist and  *)
(* main.  An answer of Lidarr is the exception requests raised, or a       *)
(* status with a body; a body is its text and whether it is JSON.          *)
(***************************************************************************)
MaxArtists == 2

ReleaseArtists ==
    <<[id |-> "a1", name |-> "First"], [id |-> "a2", name |-> "Second"],
      [id |-> "a3", name |-> "Third"]>>

\* results[0] of GET /api/v1/search: an artist, or a result without the
\* keys add_artist reads
ArtistData == [foreignArtistId |-> <<"a1">>, artistName |-> <<"First">>]
OtherData == [foreignArtistId |-> <<>>, artistName |-> <<>>]

\* what search_artist returns: results[0], or None for an empty list and
\* for any exception (lines 102-113)
SearchArtistReturns == {<<>>, <<ArtistData>>, <<OtherData>>}

Body(is_json, text) == [is_json |-> is_json, text |-> text]

ArtistPostResponses ==
    {[raised |-> <<"ConnectionError">>, status_code |-> 0, body |-> Body(FALSE, "")],
     [raised |-> <<>>, status_code |-> 201, body |-> Body(TRUE, "First")],
     [raised |-> <<>>, status_code |-> 400, body |-> Body(TRUE, "Artist already exists")],
     [raised |-> <<>>, status_code |-> 400, body |-> Body(TRUE, "Invalid root folder")],
     [raised |-> <<>>, status_code |-> 400, body |-> Body(FALSE, "Bad Request")],
     [raised |-> <<>>, status_code |-> 409, body |-> Body(TRUE, "Artist already exists")],
     [raised |-> <<>>, status_code |-> 500, body |-> Body(FALSE, "Internal Server Error")]}

\* the remote conflict: status 400 with a JSON body that says that the
\* artist exists
IsConflict(response) ==
    /\ response.raised = <<>>
    /\ response.status_code = 400
    /\ response.body.is_json
    /\ Contains(response.body.text, "Artist already exists")

AlreadyInLidarr == "Artist already in Lidarr"
ErrorAdding == "Error adding artist"

\* lines 131-162: what add_artist returns and prints, or the exception it
\* lets through: the KeyError of the payload, built before the try, and the
\* error of e.response.json(), raised inside the handler of HTTPError
add_artist(data, response) ==
    IF data.foreignArtistId = <<>> \/ data.artistName = <<>>
    THEN [raised |-> <<"KeyError">>, value |-> <<>>, printed |-> ""]
    ELSE IF response.raised # <<>>
    THEN [raised |-> <<>>, value |-> <<FALSE>>, printed |-> ErrorAdding]
    ELSE IF response.status_code < 400
    THEN [raised |-> <<>>, value |-> <<TRUE>>, printed |-> ""]
    ELSE IF response.status_code = 400 /\ ~response.body.is_json
    THEN [raised |-> <<"JSONDecodeError">>, value |-> <<>>, printed |-> ""]
    ELSE IF response.status_code = 400
            /\ Contains(response.body.text, "Artist already exists")
    THEN [raised |-> <<>>, value |-> <<FALSE>>, printed |-> AlreadyInLidarr]
    ELSE [raised |-> <<>>, value |-> <<FALSE>>, printed |-> ErrorAdding]

InitArtists ==
    /\ mbl_pc = "configuration"
    /\ mbl_args \in [monitor : BOOLEAN, search : BOOLEAN]
    /\ mbl_artists = <<>>
    /\ mbl_idx = 1
    /\ mbl_artist_data = <<>>
    /\ mbl_post = <<>>
    /\ mbl_success = <<>>
    /\ mbl_printed = ""
    /\ mbl_added = 0
    /\ mbl_skipped = 0
    /\ mbl_exit = <<>>
    /\ pc = "none"
    /\ IdleChecker
    /\ IdleStreaming
    /\ IdleExtract
    /\ IdleImport

\* where the for statement of line 258 goes with the loop at position k
ArtistLoopAt(k) == IF k <= Len(mbl_artists) THEN "search_artist" ELSE "summary"

\* lines 228-241: the three settings must all be there
GetConfiguration ==
    /\ mbl_pc = "configuration"
    /\ \E complete \in BOOLEAN :
          IF complete
          THEN mbl_pc' = "get_release_artists" /\ UNCHANGED mbl_exit
          ELSE mbl_pc' = "exited" /\ mbl_exit' = <<1>>
    /\ UNCHANGED <<mbl_args, mbl_artists, mbl_idx, mbl_artist_data, mbl_post, mbl_success,
                   mbl_printed, mbl_added, mbl_skipped, cvars, svars, ivars>>

\* lines 243-256
GetReleaseArtists ==
    /\ mbl_pc = "get_release_artists"
    /\ \E n \in 0..MaxArtists :
          /\ mbl_artists' = SubSeq(ReleaseArtists, 1, n)
          /\ IF n = 0
             THEN mbl_pc' = "exited" /\ mbl_exit' = <<1>>
             ELSE mbl_pc' = "search_artist" /\ UNCHANGED mbl_exit
    /\ UNCHANGED <<mbl_args, mbl_idx, mbl_artist_data, mbl_post, mbl_success, mbl_printed,
                   mbl_added, mbl_skipped, cvars, svars, ivars>>

\* lines 258-267
SearchArtist ==
    /\ mbl_pc = "search_artist"
    /\ \E data \in SearchArtistReturns :
          /\ mbl_artist_data' = data
          /\ IF data = <<>>
             THEN /\ mbl_skipped' = mbl_skipped + 1
                  /\ mbl_idx' = mbl_idx + 1
                  /\ mbl_pc' = ArtistLoopAt(mbl_idx + 1)
             ELSE /\ mbl_pc' = "add_artist"
                  /\ UNCHANGED <<mbl_skipped, mbl_idx>>
    /\ mbl_post' = <<>>
    /\ mbl_success' = <<>>
    /\ mbl_printed' = ""
    /\ UNCHANGED <<mbl_args, mbl_artists, mbl_added, mbl_exit, cvars, svars, ivars>>

\* lines 269-285 with add_artist
AddArtist ==
    /\ mbl_pc = "add_artist"
    /\ \E response \in ArtistPostResponses :
          LET ret == add_artist(mbl_artist_data[1], response)
          IN  /\ mbl_post' = IF ret.raised = <<"KeyError">> THEN <<>> ELSE <<response>>
              /\ mbl_success' = ret.value
              /\ mbl_printed' = ret.printed
              /\ IF ret.raised # <<>>
                 THEN /\ mbl_pc' = "exited"
                      /\ mbl_exit' = <<1>>
                      /\ UNCHANGED <<mbl_added, mbl_skipped, mbl_idx>>
                 ELSE /\ mbl_added' = IF ret.value = <<TRUE>> THEN mbl_added + 1 ELSE mbl_added
                      /\ mbl_skipped' = IF ret.value = <<TRUE>> THEN mbl_skipped
                                        ELSE mbl_skipped + 1
                      /\ mbl_idx' = mbl_idx + 1
                      /\ mbl_pc' = ArtistLoopAt(mbl_idx + 1)
                      /\ UNCHANGED mbl_exit
    /\ UNCHANGED <<mbl_args, mbl_artists, mbl_artist_data, cvars, svars, ivars>>

\* lines 287-292
ArtistSummary ==
    /\ mbl_pc = "summary"
    /\ mbl_pc' = "exited"
    /\ mbl_exit' = <<0>>
    /\ UNCHANGED <<mbl_args, mbl_artists, mbl_idx, mbl_artist_data, mbl_post, mbl_success,
                   mbl_printed, mbl_added, mbl_skipped, cvars, svars, ivars>>

NextArtists ==
    \/ GetConfiguration
    \/ GetReleaseArtists
    \/ SearchArtist
    \/ AddArtist
    \/ ArtistSummary

SpecArtists == InitArtists /\ [][NextArtists]_vars

(***************************************************************************)
(* Properties of the artist import.                                        *)
(***************************************************************************)
\* C18: when Lidarr answers the POST of an artist with status 400 and a
\* body saying that the artist already exists, main is given an outcome
\* other than the False of a failed add, and goes on with the next artist.
C18_ConflictToldApartFromFailure ==
    (mbl_post # <<>> /\ IsConflict(mbl_post[1])) =>
        (mbl_success # <<FALSE>> /\ mbl_exit # <<1>>)

====
